---- MODULE Spec2Model ----
(***************************************************************************)
(* A model of DirKeeper's server.py: the tool functions that list and      *)
(* search the users of a 389 Directory Server through lib389, the status   *)
(* classifier _get_user_status and the helpers they share.                 *)
(*                                                                         *)
(* Text is modelled as a sequence of tokens (a token is a short string);   *)
(* f-strings are concatenations of token sequences.  A directory entry is  *)
(* identified by its position in the directory (its DN and uid).  What the *)
(* library does (whether a call raises, what an account's state is) is     *)
(* part of the directory state chosen in Init or an input of the step.     *)
(***************************************************************************)
EXTENDS Integers, Sequences, FiniteSets, TLC

\* ------------------------------------------------------------------ bounds
MaxEntries == 2
MaxLimit == 2
MaxValueLen == 2

\* ------------------------------------------------------------- JSON values
\* A value is tagged with its Python type: str, datetime, list, dict, none.
None == [tag |-> "none"]
Str(s) == [tag |-> "str", s |-> s]
Num(n) == [tag |-> "num", n |-> n]
DateTime(t) == [tag |-> "datetime", t |-> t]
List(xs) == [tag |-> "list", items |-> xs]
Dict(kvs) == [tag |-> "dict", items |-> kvs]
EmptyDict == Dict(<<>>)

\* datetime.isoformat(): the text of the timestamp t.
IsoFormat(d) == Str(<<"iso:", d.t>>)

\* A faulty variant: only the values of the outermost dict are converted.
ConvertTopLevelOnly(data) ==
    IF data.tag = "dict"
    THEN Dict([i \in DOMAIN data.items |->
                 <<data.items[i][1],
                   IF data.items[i][2].tag = "datetime"
                   THEN IsoFormat(data.items[i][2]) ELSE data.items[i][2]>>])
    ELSE data

RECURSIVE _convert_datetimes_to_strings(_)
_convert_datetimes_to_strings(data) ==
    CASE data.tag = "dict" ->
            Dict([i \in DOMAIN data.items |->
                    <<data.items[i][1],
                      _convert_datetimes_to_strings(data.items[i][2])>>])
      [] data.tag = "list" ->
            List([i \in DOMAIN data.items |->
                    _convert_datetimes_to_strings(data.items[i])])
      [] data.tag = "datetime" -> IsoFormat(data)
      [] OTHER -> data

\* ------------------------------------------------------- status classifier
\* The account state the directory holds for an entry: lib389's AccountState
\* member (it has a .name), a plain string, or no 'state' key at all.
Enum(n) == [kind |-> "enum", name |-> n]
Plain(t) == [kind |-> "plain", text |-> t]
NoState == [kind |-> "missing"]

\* status_data.get('state', 'unknown')
AccountStateOf(e) ==
    IF e.state.kind = "missing" THEN Plain("unknown") ELSE e.state

\* lines 119-124: the name of the state
StateName(account_state) ==
    IF account_state.kind = "enum" THEN account_state.name
    ELSE account_state.text

\* A faulty variant: only the direct lock is classified locked.
SimpleStatusDirectOnly(state_name) ==
    IF state_name = "DIRECTLY_LOCKED" THEN "locked"
    ELSE IF state_name = "INACTIVITY_LIMIT_EXCEEDED" THEN "inactive"
    ELSE IF state_name = "ACTIVATED" THEN "active"
    ELSE "unknown"

\* lines 126-133
SimpleStatus(state_name) ==
    IF state_name \in {"DIRECTLY_LOCKED", "INDIRECTLY_LOCKED"} THEN "locked"
    ELSE IF state_name = "INACTIVITY_LIMIT_EXCEEDED" THEN "inactive"
    ELSE IF state_name = "ACTIVATED" THEN "active"
    ELSE "unknown"

\* lines 110-113
CalcTimeStr(calc_time) ==
    IF calc_time.tag = "datetime" THEN IsoFormat(calc_time) ELSE calc_time

\* lines 100-140: the primary path, for an entry whose status() succeeds
PrimaryStatus(e) ==
    [simple_status |-> SimpleStatus(StateName(AccountStateOf(e))),
     detailed_status |-> <<StateName(AccountStateOf(e))>>,
     status_params |-> _convert_datetimes_to_strings(e.params),
     calc_time |-> CalcTimeStr(e.calc_time)]

\* line 150: 'nsAccountLock' in attrs and attrs[..] and attrs[..][0].lower() == 'true'
\* e.lock is the attribute's value list as get_all_attrs() hands it over: its
\* values are str, or the raw bytes of the LDAP result (written b'...').
\* Lower is .lower() on the values used; bytes stay bytes and equal no str.
Lower(s) ==
    IF s \in {"true", "TRUE", "True"} THEN "true"
    ELSE IF s \in {"b'true'", "b'TRUE'"} THEN "b'true'"
    ELSE s
IsLockedAttr(lock) == Len(lock) > 0 /\ Lower(lock[1]) = "true"

\* lines 145-171: the fallback path, entered with the primary error text
FallbackStatus(e, err) ==
    IF e.fbErr
    THEN [simple_status |-> "unknown",
          detailed_status |-> <<"error: ", err>>,
          status_params |-> EmptyDict,
          calc_time |-> None]
    ELSE IF IsLockedAttr(e.lock)
    THEN [simple_status |-> "locked",
          detailed_status |-> <<"DIRECTLY_LOCKED">>,
          status_params |-> EmptyDict,
          calc_time |-> None]
    ELSE [simple_status |-> "active",
          detailed_status |-> <<"ACTIVATED">>,
          status_params |-> EmptyDict,
          calc_time |-> None]

\* A faulty variant: the double failure reports the fallback's error.
StatusWithFallbackErrorText(e) ==
    IF e.statusErr THEN FallbackStatus(e, "E_fallback") ELSE PrimaryStatus(e)

\* _get_user_status: what it returns for the entry
_get_user_status(e) ==
    IF e.statusErr THEN FallbackStatus(e, "E_status") ELSE PrimaryStatus(e)

\* the directory operations _get_user_status performs, in order
StatusOps(e) ==
    IF e.statusErr THEN <<"status", "fallback">> ELSE <<"status">>

\* ---------------------------------------------------------- filter builder
HasStar(text) == \E i \in DOMAIN text : text[i] = "*"

\* A faulty variant: the value is wrapped in wildcards whatever it holds.
AttributeFilterAlwaysWrapped(attribute, value) ==
    <<"(", attribute, "=", "*">> \o value \o <<"*", ")">>

\* search_users_by_attribute, lines 602-605
AttributeFilter(attribute, value) ==
    IF HasStar(value)
    THEN <<"(", attribute, "=">> \o value \o <<")">>
    ELSE <<"(", attribute, "=", "*">> \o value \o <<"*", ")">>

\* A faulty variant: mail is not searched.
NameAttrsWithoutMail == <<"uid", "cn", "givenName", "sn", "displayName">>

\* search_users_by_name, lines 269-274: the attributes in the order written
NameAttrs == <<"uid", "cn", "givenName", "sn", "displayName", "mail">>

Verbatim(attr, name) == <<"(", attr, "=">> \o name \o <<")">>
Wrapped(attr, name) == <<"(", attr, "=", "*">> \o name \o <<"*", ")">>

RECURSIVE NameClauses(_, _, _)
NameClauses(i, name, star) ==
    IF i > Len(NameAttrs) THEN <<>>
    ELSE (IF star THEN Verbatim(NameAttrs[i], name)
                  ELSE Wrapped(NameAttrs[i], name))
         \o NameClauses(i + 1, name, star)

NameFilter(name) ==
    <<"(", "|">> \o NameClauses(1, name, HasStar(name)) \o <<")">>

\* --------------------------------------------------------------- directory
Absent == [tag |-> "absent"]
DefaultAttrs == Dict(<< <<"cn", List(<<Str(<<"n">>)>>)>> >>)

Entry(read, attrs, state, statusErr, lock, fbErr) ==
    [read |-> read, attrs |-> attrs, state |-> state, statusErr |-> statusErr,
     lock |-> lock, fbErr |-> fbErr, params |-> EmptyDict, calc_time |-> None]

\* An entry whose status() works: nsAccountLock is set exactly when the
\* account is directly locked.
Healthy(state) ==
    Entry("ok", DefaultAttrs, state, FALSE,
          IF state = Enum("DIRECTLY_LOCKED") THEN <<"true">> ELSE <<>>, FALSE)

\* An entry whose status() raises, with the state the account really has.
Unqueryable(state, lock, fbErr) == Entry("ok", DefaultAttrs, state, TRUE, lock, fbErr)

\* The kinds of entry the directories of the listings are built from: one
\* that cannot be read, one without an attrs map, accounts in the states the
\* status filters tell apart, and accounts whose status() raises.
EntryKinds ==
    { Entry("raise", DefaultAttrs, Enum("ACTIVATED"), FALSE, <<>>, FALSE),
      Entry("ok", Absent, Enum("ACTIVATED"), FALSE, <<>>, FALSE),
      Healthy(Enum("ACTIVATED")),
      Healthy(Enum("DIRECTLY_LOCKED")),
      Healthy(Enum("INACTIVITY_LIMIT_EXCEEDED")),
      Unqueryable(Enum("INDIRECTLY_LOCKED"), <<>>, FALSE),
      Unqueryable(Enum("DIRECTLY_LOCKED"), <<"TRUE">>, FALSE),
      Unqueryable(Enum("ACTIVATED"), <<"false">>, TRUE) }

\* The params of a status object, with timestamps at every depth.
StatusParams ==
    Dict(<< <<"Creation Date", DateTime("t0")>>,
            <<"History", List(<<DateTime("t1"), Num(1),
                                Dict(<< <<"Last Login", DateTime("t3")>> >>)>>)>> >>)

\* Every kind of entry: the above, the other account states, the other
\* values of nsAccountLock (str and bytes), attrs of the wrong type, status
\* objects that hold timestamps, and an entry that comes with a
\* computed_status attribute of its own.
RichKinds ==
    EntryKinds
    \cup { Healthy(st) : st \in { Enum("INDIRECTLY_LOCKED"), Plain("EXPIRED"), NoState } }
    \cup { Unqueryable(Enum("ACTIVATED"), lock, FALSE) :
              lock \in { <<>>, <<"false">>, <<"true">>, <<"">> } }
    \cup { Unqueryable(Enum("INACTIVITY_LIMIT_EXCEEDED"), <<>>, FALSE),
           Unqueryable(Enum("DIRECTLY_LOCKED"), <<"b'true'">>, FALSE),
           Entry("ok", List(<<>>), Enum("ACTIVATED"), TRUE, <<>>, FALSE),
           [Healthy(Enum("ACTIVATED")) EXCEPT !.params = StatusParams,
                                              !.calc_time = DateTime("t2")],
           [Healthy(Enum("DIRECTLY_LOCKED")) EXCEPT !.calc_time = Num(5)],
           [Healthy(Enum("ACTIVATED")) EXCEPT
               !.attrs = Dict(<< <<"computed_status", Str(<<"stale">>)>>,
                                 <<"createTimestamp", List(<<Str(<<"20240101Z">>)>>)>> >>)] }

SeqsUpTo(S, n) == UNION { [1..k -> S] : k \in 0..n }

Directories == SeqsUpTo(EntryKinds, MaxEntries)

\* The DN (and uid) of the entry at position i of the directory.
Dn(i) == ToString(i)

\* ------------------------------------------------------------------- tools
LoopTools == {"list_all_users", "search_users_by_name", "search_users_by_attribute",
              "list_active_users", "list_locked_users"}
FilterTools == {"search_users_by_name", "search_users_by_attribute"}
StatusTools == {"list_active_users", "list_locked_users"}
Tools == LoopTools \cup {"get_user_details", "run_list_healthchecks"}

Limits == -1 .. MaxLimit
Texts == SeqsUpTo({"a", "*"}, MaxValueLen)
Usernames == { Dn(i) : i \in 1 .. MaxEntries + 1 }
Attributes == {"employeeType", "title"}

\* The checks _list_checks enumerates on the local instance.
HealthChecks == <<"config:hr_timestamp", "backends:userroot:mappingtree">>

\* ------------------------------------------------------------------- state
Procs == {"p1", "p2"}

\* The configurations the process environment can hold (LDAP_URL,
\* LDAP_BASE_DN, LDAP_BIND_DN, LDAP_BIND_PASSWORD, LDAP_INSTANCE together).
Configs == {"cfg1", "cfg2"}

VARIABLES dir, call, env
vars == <<dir, call, env>>

NoArgs == [none |-> TRUE]
NoResponse == [kind |-> "none"]

\* An invocation that has not been called.
Idle ==
    [pc |-> "idle", tool |-> "none", args |-> NoArgs, limit |-> 0,
     conn |-> "none", search_filter |-> <<>>, user_entries |-> <<>>, idx |-> 1,
     results |-> <<>>, count |-> 0, processed |-> 0, err |-> "",
     log |-> <<>>, resp |-> NoResponse,
     config |-> "none", conn_config |-> "none"]

\* ---------------------------------------------------------------- responses
\* CallToolResult(content=[TextContent(text=json.dumps(response_data))])
Success(data) == [kind |-> "result", isError |-> FALSE, data |-> data]
\* A faulty variant: an error result that still carries an empty item list.
FailureWithItems(text) ==
    [kind |-> "result", isError |-> TRUE, text |-> text,
     data |-> [items |-> <<>>]]

\* CallToolResult(isError=True, content=[TextContent(text=error_message)])
Failure(text) ==
    [kind |-> "result", isError |-> TRUE, text |-> text]

\* The error_message of each tool's outer except clause, for str(e) = e.
ErrorMessage(c, e) ==
    CASE c.tool = "list_all_users" -> <<"Error listing users: ", e>>
      [] c.tool = "search_users_by_name" ->
            <<"Error searching users by name '">> \o c.args.name \o <<"': ", e>>
      [] c.tool = "get_user_details" ->
            <<"Error getting user details for '", c.args.username, "': ", e>>
      [] c.tool = "list_active_users" -> <<"Error listing active users: ", e>>
      [] c.tool = "list_locked_users" -> <<"Error listing locked users: ", e>>
      [] c.tool = "search_users_by_attribute" ->
            <<"Error searching users by attribute ", c.args.attribute, "=">>
            \o c.args.value \o <<": ", e>>
      [] c.tool = "run_list_healthchecks" -> <<"Error listing healthchecks: ", e>>

\* get_user_details, line 392
NotFoundMessage(c, e) == <<"User '", c.args.username, "' ", "not found", ": ", e>>

\* The outer `except Exception as e` of a tool: the call returns an error result.
Caught(c, e) ==
    [c EXCEPT !.pc = "done", !.err = e, !.resp = Failure(ErrorMessage(c, e))]

\* response_data of each tool on its success path
ResponseData(c) ==
    CASE c.tool = "list_all_users" ->
            [type |-> "user_list", total_returned |-> Len(c.results),
             limit_applied |-> c.limit, items |-> c.results]
      [] c.tool = "search_users_by_name" ->
            [type |-> "user_search", search_term |-> c.args.name,
             filter_used |-> c.search_filter, total_returned |-> Len(c.results),
             limit_applied |-> c.limit, items |-> c.results]
      [] c.tool = "search_users_by_attribute" ->
            [type |-> "attribute_search", attribute |-> c.args.attribute,
             value |-> c.args.value, filter_used |-> c.search_filter,
             total_returned |-> Len(c.results), limit_applied |-> c.limit,
             items |-> c.results]
      [] c.tool = "list_active_users" ->
            [type |-> "active_users", total_processed |-> c.processed,
             active_users_found |-> Len(c.results), limit_applied |-> c.limit,
             items |-> c.results]
      [] c.tool = "list_locked_users" ->
            [type |-> "locked_users", total_processed |-> c.processed,
             locked_users_found |-> Len(c.results), limit_applied |-> c.limit,
             items |-> c.results]
      [] c.tool = "get_user_details" ->
            [type |-> "user_details", username |-> c.args.username,
             user |-> c.results[1]]
      [] c.tool = "run_list_healthchecks" ->
            [type |-> "healthchecks", total_checks |-> Len(c.results),
             items |-> c.results]

\* ------------------------------------------------------- entry processing
\* A faulty variant: an attribute the entry already has is kept.
DictSetKeepingExisting(d, k, v) ==
    IF \E i \in DOMAIN d.items : d.items[i][1] = k
    THEN d
    ELSE Dict(Append(d.items, <<k, v>>))

\* d[k] = v on a dict value: replaces the key's value, or adds the key last.
DictSet(d, k, v) ==
    IF \E i \in DOMAIN d.items : d.items[i][1] = k
    THEN Dict([i \in DOMAIN d.items |->
                 IF d.items[i][1] = k THEN <<k, v>> ELSE d.items[i]])
    ELSE Dict(Append(d.items, <<k, v>>))

\* d.get(k): the value of the key, None when the dict has no such key.
DictGet(d, k) ==
    IF \E i \in DOMAIN d.items : d.items[i][1] = k
    THEN d.items[CHOOSE i \in DOMAIN d.items : d.items[i][1] = k][2]
    ELSE None

\* The body of the per-entry try block (lines 200-210 and their copies), for
\* the entry at position i: the record built, when no statement raises.
UserData(i) ==
    [dn |-> Dn(i),
     attrs |-> DictSet(_convert_datetimes_to_strings(dir[i].attrs),
                       "computed_status", _get_user_status(dir[i]))]

\* The text of the exception the per-entry statements raise, "" when none does:
\* get_all_attrs_json / json.loads fail, or user_data['attrs'] is no dict and
\* the assignment of computed_status fails.
EntryError(i) ==
    IF dir[i].read # "ok" THEN "E_read"
    ELSE IF dir[i].attrs.tag # "dict" THEN "E_attrs"
    ELSE ""

\* The directory operations the per-entry statements perform, in order.
EntryOps(i) ==
    IF dir[i].read # "ok" THEN <<"read">> ELSE <<"read">> \o StatusOps(dir[i])

\* A faulty variant: list_locked_users keeps whatever is not active.
KeepsNotActive(tool, status) ==
    CASE tool = "list_active_users" -> status.simple_status = "active"
      [] tool = "list_locked_users" -> status.simple_status # "active"
      [] OTHER -> TRUE

\* The post-filter of list_active_users (line 459) and list_locked_users (542).
Keeps(tool, status) ==
    CASE tool = "list_active_users" -> status.simple_status = "active"
      [] tool = "list_locked_users" -> status.simple_status = "locked"
      [] OTHER -> TRUE

\* A faulty variant: no per-entry try block, an entry's exception ends the listing.
LoopBodyAborting(c, i) ==
    LET seen == [c EXCEPT !.idx = c.idx + 1,
                          !.log = c.log \o EntryOps(i),
                          !.processed = IF c.tool \in StatusTools
                                        THEN c.processed + 1 ELSE c.processed]
    IN  IF EntryError(i) # ""
        THEN [seen EXCEPT !.pc = "done", !.err = EntryError(i),
                          !.resp = Failure(ErrorMessage(c, EntryError(i)))]
        ELSE IF Keeps(c.tool, _get_user_status(dir[i]))
        THEN [seen EXCEPT !.results = Append(c.results, UserData(i)),
                          !.count = c.count + 1]
        ELSE seen

\* A faulty variant: processed counts only the entries that are kept.
LoopBodyCountingKept(c, i) ==
    LET seen == [c EXCEPT !.idx = c.idx + 1,
                          !.log = c.log \o EntryOps(i)]
    IN  IF EntryError(i) # "" THEN seen
        ELSE IF Keeps(c.tool, _get_user_status(dir[i]))
        THEN [seen EXCEPT !.results = Append(c.results, UserData(i)),
                          !.count = c.count + 1,
                          !.processed = IF c.tool \in StatusTools
                                        THEN c.processed + 1 ELSE c.processed]
        ELSE seen

\* A faulty variant: every inspected entry uses up the limit.
LoopBodyLimitingInspected(c, i) ==
    LET seen == [c EXCEPT !.idx = c.idx + 1,
                          !.log = c.log \o EntryOps(i),
                          !.count = c.count + 1,
                          !.processed = IF c.tool \in StatusTools
                                        THEN c.processed + 1 ELSE c.processed]
    IN  IF EntryError(i) # "" THEN seen
        ELSE IF Keeps(c.tool, _get_user_status(dir[i]))
        THEN [seen EXCEPT !.results = Append(c.results, UserData(i))]
        ELSE seen

\* A faulty variant: a kept entry is put in front of the results.
LoopBodyPrepending(c, i) ==
    LET seen == [c EXCEPT !.idx = c.idx + 1,
                          !.log = c.log \o EntryOps(i),
                          !.processed = IF c.tool \in StatusTools
                                        THEN c.processed + 1 ELSE c.processed]
    IN  IF EntryError(i) # "" THEN seen
        ELSE IF Keeps(c.tool, _get_user_status(dir[i]))
        THEN [seen EXCEPT !.results = <<UserData(i)>> \o c.results,
                          !.count = c.count + 1]
        ELSE seen

\* One iteration of the for loop on the entry at position i.
LoopBody(c, i) ==
    LET seen == [c EXCEPT !.idx = c.idx + 1,
                          !.log = c.log \o EntryOps(i),
                          !.processed = IF c.tool \in StatusTools
                                        THEN c.processed + 1 ELSE c.processed]
    IN  IF EntryError(i) # "" THEN seen
        ELSE IF Keeps(c.tool, _get_user_status(dir[i]))
        THEN [seen EXCEPT !.results = Append(c.results, UserData(i)),
                          !.count = c.count + 1]
        ELSE seen

\* ----------------------------------------------------------------- actions
ArgsFor(tool, attributes, texts) ==
    CASE tool = "search_users_by_name" -> { [name |-> n] : n \in texts }
      [] tool = "search_users_by_attribute" ->
            { [attribute |-> a, value |-> v] : a \in attributes, v \in texts }
      [] tool = "get_user_details" -> { [username |-> u] : u \in Usernames }
      [] OTHER -> {NoArgs}

LimitsFor(tool) == IF tool \in LoopTools THEN Limits ELSE {0}

\* A faulty variant: the connection handle is a module-level global that every
\* invocation in flight reads and writes.
BecomeSharingHandle(p, c) ==
    /\ call' = [q \in Procs |->
                  IF q = p THEN c
                  ELSE IF call[q].pc \in {"idle", "done"} THEN call[q]
                  ELSE [call[q] EXCEPT !.conn = c.conn]]
    /\ UNCHANGED <<dir, env>>

\* A step of invocation p: the locals of its own frame change, nothing else.
Become(p, c) == call' = [call EXCEPT ![p] = c] /\ UNCHANGED <<dir, env>>

\* config = get_ldap_config() in the tool body (lines 186, 265, 353, 430, 513,
\* 598): the environment as it is now; run_list_healthchecks has no such read.
ToolConfig(tool) == IF tool = "run_list_healthchecks" THEN "none" ELSE env

\* A caller invokes a tool, and the tool reads its configuration.
Invoke(p, tools, attributes, texts) ==
    /\ call[p].pc = "idle"
    /\ \E tool \in tools : \E args \in ArgsFor(tool, attributes, texts) : \E limit \in LimitsFor(tool) :
         Become(p, [Idle EXCEPT !.pc = "connect", !.tool = tool,
                                !.args = args, !.limit = limit,
                                !.config = ToolConfig(tool)])

\* get_ldap_config and get_ldap_connection: the connection opens, fails to
\* open (the exception is re-raised, line 94), or, for the local connection
\* of run_list_healthchecks, there is no local instance (None, line 74).
AfterConnect(tool) ==
    CASE tool \in LoopTools -> "search"
      [] tool = "get_user_details" -> "lookup"
      [] OTHER -> "checks"

\* A faulty variant: the failure to open is logged and swallowed, and the tool goes on
\* with no connection.
ConnectedSwallowing(c, outcome) ==
    CASE outcome = "open" ->
            [c EXCEPT !.pc = AfterConnect(c.tool), !.conn = "open",
                      !.log = Append(c.log, "open")]
      [] outcome = "raise" ->
            [c EXCEPT !.pc = AfterConnect(c.tool), !.log = Append(c.log, "open")]
      [] outcome = "no_instance" ->
            [c EXCEPT !.pc = "done",
                      !.resp = Failure(<<"There is no local instance">>)]

\* A faulty variant: a failed open is tried once more, and then succeeds.
ConnectedRetrying(c, outcome) ==
    CASE outcome = "open" ->
            [c EXCEPT !.pc = AfterConnect(c.tool), !.conn = "open",
                      !.log = Append(c.log, "open")]
      [] outcome = "raise" ->
            [c EXCEPT !.pc = AfterConnect(c.tool), !.conn = "open",
                      !.log = c.log \o <<"open", "open">>]
      [] outcome = "no_instance" ->
            [c EXCEPT !.pc = "done",
                      !.resp = Failure(<<"There is no local instance">>)]

Connected(c, outcome) ==
    CASE outcome = "open" ->
            [c EXCEPT !.pc = AfterConnect(c.tool), !.conn = "open",
                      !.log = Append(c.log, "open")]
      [] outcome = "raise" -> Caught([c EXCEPT !.log = Append(c.log, "open")], "E_connect")
      [] outcome = "no_instance" ->
            [c EXCEPT !.pc = "done",
                      !.resp = Failure(<<"There is no local instance">>)]

\* config = get_ldap_config() in get_ldap_connection, line 57: a second read
\* of the environment, from which the URL and the bind credentials are taken.
ReadConfig(c) == [c EXCEPT !.conn_config = env]

Connect(p) ==
    /\ call[p].pc = "connect"
    /\ \E outcome \in {"open", "raise"} \cup
                      (IF call[p].tool = "run_list_healthchecks"
                       THEN {"no_instance"} ELSE {}) :
         Become(p, Connected(ReadConfig(call[p]), outcome))

\* The filter each tool composes ("" for the tools that list everything).
SearchFilter(c) ==
    CASE c.tool = "search_users_by_name" -> NameFilter(c.args.name)
      [] c.tool = "search_users_by_attribute" ->
            AttributeFilter(c.args.attribute, c.args.value)
      [] OTHER -> <<>>

RECURSIVE Ascending(_)
Ascending(S) ==
    IF S = {} THEN <<>>
    ELSE LET m == CHOOSE x \in S : \A y \in S : x <= y
         IN  <<m>> \o Ascending(S \ {m})

\* What the library enumerates: users.list() yields every entry, and
\* users.filter(f) the entries the server finds to match f, in directory order.
Enumerations(c) ==
    IF c.tool \in FilterTools
    THEN { Ascending(S) : S \in SUBSET (1 .. Len(dir)) }
    ELSE { Ascending(1 .. Len(dir)) }

\* users.list() / users.filter(search_filter) raised: the outer except clause.
SearchFailed(c) ==
    Caught([c EXCEPT !.search_filter = SearchFilter(c),
                     !.log = Append(c.log, "search")], "E_search")

Search(p) ==
    /\ call[p].pc = "search"
    /\ \/ \E found \in Enumerations(call[p]) :
            Become(p, [call[p] EXCEPT !.pc = "loop",
                                      !.search_filter = SearchFilter(call[p]),
                                      !.user_entries = found,
                                      !.log = Append(call[p].log, "search")])
       \/ Become(p, SearchFailed(call[p]))

\* for user in user_entries: if count >= limit: break ...
Iterate(p) ==
    /\ call[p].pc = "loop"
    /\ IF call[p].idx > Len(call[p].user_entries) \/ call[p].count >= call[p].limit
       THEN Become(p, [call[p] EXCEPT !.pc = "close"])
       ELSE Become(p, LoopBody(call[p], call[p].user_entries[call[p].idx]))

\* get_user_details, lines 359-370: users.get(username) and the entry's record.
Present(username) == \E i \in 1 .. Len(dir) : Dn(i) = username
IndexOf(username) == CHOOSE i \in 1 .. Len(dir) : Dn(i) = username

\* An exception raised inside the inner try block of get_user_details.
InnerCaught(c, e) == [c EXCEPT !.pc = "handler", !.err = e]

LookedUp(c) ==
    IF ~Present(c.args.username)
    THEN InnerCaught([c EXCEPT !.log = Append(c.log, "get")], "E_nouser")
    ELSE LET i == IndexOf(c.args.username)
             got == [c EXCEPT !.log = Append(c.log, "get") \o EntryOps(i)]
         IN  IF EntryError(i) # "" THEN InnerCaught(got, EntryError(i))
             ELSE [got EXCEPT !.pc = "close", !.results = <<UserData(i)>>]

Lookup(p) ==
    /\ call[p].pc = "lookup"
    /\ Become(p, LookedUp(call[p]))

\* run_list_healthchecks, lines 715-719
Checks(p) ==
    /\ call[p].pc = "checks"
    /\ \/ Become(p, [call[p] EXCEPT !.pc = "close", !.results = HealthChecks,
                                    !.log = Append(call[p].log, "lint")])
       \/ Become(p, Caught([call[p] EXCEPT !.log = Append(call[p].log, "lint")],
                           "E_checks"))

\* An exception raised by a statement after the loop: in get_user_details the
\* statement is inside the inner try block, in the other tools only the outer
\* except clause is around it.
Raised(c, e) ==
    IF c.tool = "get_user_details" THEN InnerCaught(c, e) ELSE Caught(c, e)

\* ds.unbind_s() after the loop (lines 219, 306, 372, 467, 550, 637, 721)
Closed(c, ok) ==
    LET called == [c EXCEPT !.log = Append(c.log, "unbind")]
    IN  IF ok THEN [called EXCEPT !.pc = "respond", !.conn = "closed"]
        ELSE Raised(called, "E_unbind")

Close(p) ==
    /\ call[p].pc = "close"
    /\ \E ok \in BOOLEAN : Become(p, Closed(call[p], ok))

\* json.dumps(response_data) and the return of the result
Responded(c, ok) ==
    IF ok THEN [c EXCEPT !.pc = "done", !.resp = Success(ResponseData(c))]
    ELSE Raised(c, "E_dumps")

Respond(p) ==
    /\ call[p].pc = "respond"
    /\ \E ok \in BOOLEAN : Become(p, Responded(call[p], ok))

\* A faulty variant: no outer try around the inner except clause, so a failing
\* unbind_s in it leaves the tool as a raw exception.
HandledWithoutOuterTry(c, ok) ==
    LET called == [c EXCEPT !.log = Append(c.log, "unbind")]
    IN  IF ok THEN [called EXCEPT !.pc = "done", !.conn = "closed",
                                  !.resp = Failure(NotFoundMessage(c, c.err))]
        ELSE [called EXCEPT !.pc = "done", !.err = "E_unbind",
                            !.resp = [kind |-> "raised", exc |-> "E_unbind"]]

\* A faulty variant: the inner except clause returns without closing the connection.
HandledWithoutClose(c, ok) ==
    [c EXCEPT !.pc = "done", !.resp = Failure(NotFoundMessage(c, c.err))]

\* get_user_details, lines 390-402: the inner except clause
Handled(c, ok) ==
    LET called == [c EXCEPT !.log = Append(c.log, "unbind")]
    IN  IF ok THEN [called EXCEPT !.pc = "done", !.conn = "closed",
                                  !.resp = Failure(NotFoundMessage(c, c.err))]
        ELSE Caught(called, "E_unbind")

Handler(p) ==
    /\ call[p].pc = "handler"
    /\ \E ok \in BOOLEAN : Become(p, Handled(call[p], ok))

\* ----------------------------------------------------------- specification
MainTexts == { <<"a">> }

Init ==
    /\ dir \in Directories
    /\ call = [p \in Procs |-> Idle]
    /\ env = "cfg1"

Step(p) ==
    \/ Connect(p)
    \/ Search(p)
    \/ Iterate(p)
    \/ Lookup(p)
    \/ Checks(p)
    \/ Close(p)
    \/ Respond(p)
    \/ Handler(p)

\* One invocation at a time: the server is single-threaded and synchronous.
Next ==
    \/ Invoke("p1", Tools, {"title"}, MainTexts)
    \/ Step("p1")

Spec == Init /\ [][Next]_vars

\* The steps of the tools built around the for loop.
LoopStep(p) ==
    \/ Connect(p)
    \/ Search(p)
    \/ Iterate(p)
    \/ Close(p)
    \/ Respond(p)

Returned(c) == c.pc = "done" /\ c.resp.kind = "result" /\ ~c.resp.isError

\* list_active_users, then list_locked_users on the same directory.
NextPair ==
    \/ Invoke("p1", {"list_active_users"}, {}, {})
    \/ Returned(call["p1"]) /\ Invoke("p2", {"list_locked_users"}, {}, {})
    \/ LoopStep("p1")
    \/ LoopStep("p2")

SpecPair == Init /\ [][NextPair]_vars

\* The search tools on every name, attribute and value, over small directories.
InitFilter ==
    /\ dir \in { d \in Directories : Len(d) <= 1 }
    /\ call = [p \in Procs |-> Idle]
    /\ env = "cfg1"

NextFilter ==
    \/ Invoke("p1", FilterTools, Attributes, Texts)
    \/ LoopStep("p1")

SpecFilter == InitFilter /\ [][NextFilter]_vars

\* Two invocations in flight at once (a server run with a threaded or
\* multi-worker transport): their steps interleave freely.
InitConc ==
    /\ dir \in { d \in Directories : Len(d) <= 1 }
    /\ call = [p \in Procs |-> Idle]
    /\ env = "cfg1"

NextConc ==
    \/ Invoke("p1", Tools, {"title"}, MainTexts)
    \/ Invoke("p2", {"list_all_users", "list_locked_users"}, {}, {})
    \/ Step("p1")
    \/ LoopStep("p2")

SpecConc == InitConc /\ [][NextConc]_vars

\* The environment of the server process is changed while a listing or a
\* search runs (os.environ is process-wide and writable at any moment).
SetEnv ==
    /\ \E c \in Configs \ {env} : env' = c
    /\ UNCHANGED <<dir, call>>

InitEnv ==
    /\ dir \in { d \in Directories : Len(d) <= 1 }
    /\ call = [p \in Procs |-> Idle]
    /\ env \in Configs

NextEnv ==
    \/ Invoke("p1", LoopTools, {"title"}, MainTexts)
    \/ LoopStep("p1")
    \/ SetEnv

SpecEnv == InitEnv /\ [][NextEnv]_vars

\* Every tool on a directory of one entry, of every kind, alone or followed
\* by a directly locked account.
InitStatus ==
    /\ dir \in { <<e>> : e \in RichKinds }
               \cup { <<e, Healthy(Enum("DIRECTLY_LOCKED"))>> : e \in RichKinds }
    /\ call = [p \in Procs |-> Idle]
    /\ env = "cfg1"

SpecStatus == InitStatus /\ [][Next]_vars

\* ------------------------------------------------------------------ claims
Finished(c) == c.pc = "done"
Succeeded(c) == Returned(c)
Failed(c) == c.pc = "done" /\ c.resp.kind = "result" /\ c.resp.isError
StatusOfItem(item) == DictGet(item.attrs, "computed_status")

\* C1: every successful response of list_all_users, search_users_by_name and
\* search_users_by_attribute, for every integer limit (zero and negative
\* included), has len(items) <= limit_applied and total_returned == len(items).
C1_ItemsWithinLimit ==
    \A p \in Procs :
        (Succeeded(call[p]) /\ call[p].tool \in
            {"list_all_users", "search_users_by_name", "search_users_by_attribute"})
        => /\ Len(call[p].resp.data.items) <= call[p].resp.data.limit_applied
           /\ call[p].resp.data.total_returned = Len(call[p].resp.data.items)

DnsOf(items) == { items[i].dn : i \in DOMAIN items }

\* C2: every item list_active_users returns has computed_status.simple_status
\* 'active', every item list_locked_users returns has 'locked', and on the
\* same directory the two result sets share no entry.
C2_ActiveLockedDisjoint ==
    /\ \A p \in Procs :
         Succeeded(call[p]) =>
            \A i \in DOMAIN call[p].resp.data.items :
               /\ call[p].tool = "list_active_users" =>
                    StatusOfItem(call[p].resp.data.items[i]).simple_status = "active"
               /\ call[p].tool = "list_locked_users" =>
                    StatusOfItem(call[p].resp.data.items[i]).simple_status = "locked"
    /\ (Succeeded(call["p1"]) /\ Succeeded(call["p2"]))
         => DnsOf(call["p1"].resp.data.items) \cap DnsOf(call["p2"].resp.data.items) = {}

\* Both listings returned entries of a directory holding other entries too.
C2_Witness ==
    /\ Succeeded(call["p1"]) /\ call["p1"].tool = "list_active_users"
    /\ Succeeded(call["p2"]) /\ call["p2"].tool = "list_locked_users"
    /\ Len(call["p1"].resp.data.items) > 0
    /\ Len(call["p2"].resp.data.items) > 0

\* C3: in every invocation whose connection was opened, unbind_s is called
\* before the tool returns, on every path.
C3_ClosedBeforeReturn ==
    \A p \in Procs :
        (Finished(call[p]) /\ call[p].conn # "none")
        => \E i \in DOMAIN call[p].log : call[p].log[i] = "unbind"

\* C4: every tool returns a result on every path, a success response or an
\* isError response carrying a text message; no exception leaves the tool, and
\* no invocation is left without a next step before it has returned.
C4_AlwaysReturnsResult ==
    \A p \in Procs :
        /\ Finished(call[p]) =>
              /\ call[p].resp.kind = "result"
              /\ call[p].resp.isError => Len(call[p].resp.text) > 0
              /\ ~call[p].resp.isError => call[p].resp.data.type # ""
        /\ call[p].pc \notin {"idle", "done"} => ENABLED Step(p)

\* get_user_details returned an error result although unbind_s raised inside
\* the inner except clause, after the lookup had raised.
C4_Witness ==
    /\ Failed(call["p1"])
    /\ call["p1"].tool = "get_user_details"
    /\ call["p1"].err = "E_unbind"
    /\ call["p1"].log = <<"open", "get", "unbind">>

\* C5: when opening the connection fails, the failure is re-raised and the
\* tool returns an error response with no items, having performed no search,
\* no entry read and no status query.
C5_ConnectFailureAborts ==
    \A p \in Procs :
        /\ call[p].conn = "none" =>
              /\ call[p].results = <<>>
              /\ call[p].user_entries = <<>>
              /\ \A i \in DOMAIN call[p].log : call[p].log[i] = "open"
        /\ (call[p].conn = "none" /\ call[p].log = <<"open">>) =>
              /\ Failed(call[p])
              /\ call[p].resp.text = ErrorMessage(call[p], "E_connect")
              /\ "data" \notin DOMAIN call[p].resp

\* list_all_users on a directory that has entries, with a failing open.
C5_Witness ==
    /\ Finished(call["p1"])
    /\ call["p1"].tool = "list_all_users"
    /\ call["p1"].limit > 0
    /\ Len(dir) > 0
    /\ call["p1"].conn = "none"
    /\ call["p1"].log = <<"open">>

\* The entries an invocation enumerated that were processed without an
\* exception and pass the tool's status filter, in enumeration order.
WellFormed(i) == dir[i].read = "ok" /\ dir[i].attrs.tag = "dict"
Qualifies(tool, i) ==
    /\ WellFormed(i)
    /\ tool = "list_active_users" => _get_user_status(dir[i]).simple_status = "active"
    /\ tool = "list_locked_users" => _get_user_status(dir[i]).simple_status = "locked"
Qualifying(tool, entries) ==
    LET Test(i) == Qualifies(tool, i) IN SelectSeq(entries, Test)
FirstN(s, n) == SubSeq(s, 1, IF n < Len(s) THEN n ELSE Len(s))
DnSeq(items) == [k \in DOMAIN items |-> items[k].dn]
Has(s, x) == \E k \in DOMAIN s : s[k] = x

\* C6: in the listing and search tools a failure while processing one entry
\* skips only that entry: the call never ends in an error because of an entry,
\* and a success response holds every other qualifying entry up to the limit.
C6_BadEntrySkipped ==
    \A p \in Procs :
        call[p].tool \in LoopTools =>
           /\ Failed(call[p]) =>
                call[p].err \in {"E_connect", "E_search", "E_unbind", "E_dumps"}
           /\ call[p].pc = "loop" => call[p].resp = NoResponse
           /\ Succeeded(call[p]) =>
                DnSeq(call[p].resp.data.items) =
                   [k \in DOMAIN FirstN(Qualifying(call[p].tool, call[p].user_entries),
                                        call[p].limit) |->
                      Dn(FirstN(Qualifying(call[p].tool, call[p].user_entries),
                                call[p].limit)[k])]

\* A listing that met an entry it could not process and still returned the
\* entry after it.
C6_Witness ==
    /\ Succeeded(call["p1"])
    /\ call["p1"].tool \in LoopTools
    /\ Len(call["p1"].user_entries) >= 2
    /\ ~WellFormed(call["p1"].user_entries[1])
    /\ Len(call["p1"].resp.data.items) > 0
    /\ call["p1"].resp.data.items[1].dn = Dn(call["p1"].user_entries[2])

\* C7: when users.filter rejects the composed filter, search_users_by_name and
\* search_users_by_attribute degrade to an unfiltered full listing bounded by
\* limit and return a success response.
C7_RejectedFilterFallsBack ==
    \A p \in Procs :
        (call[p].tool \in FilterTools /\ Finished(call[p]) /\ call[p].err = "E_search")
        => /\ Succeeded(call[p])
           /\ DnSeq(call[p].resp.data.items) =
                 [k \in DOMAIN FirstN(Qualifying(call[p].tool, Ascending(1 .. Len(dir))),
                                      call[p].limit) |->
                    Dn(FirstN(Qualifying(call[p].tool, Ascending(1 .. Len(dir))),
                              call[p].limit)[k])]

RawStateName(i) ==
    CASE dir[i].state.kind = "enum" -> dir[i].state.name
      [] dir[i].state.kind = "plain" -> dir[i].state.text
      [] OTHER -> "unknown"

MappedStatus(name) ==
    CASE name = "DIRECTLY_LOCKED" -> "locked"
      [] name = "INDIRECTLY_LOCKED" -> "locked"
      [] name = "INACTIVITY_LIMIT_EXCEEDED" -> "inactive"
      [] name = "ACTIVATED" -> "active"
      [] OTHER -> "unknown"

EntryOfItem(item) == CHOOSE i \in 1 .. Len(dir) : Dn(i) = item.dn

\* C9: when the primary status query succeeds, simple_status is locked for
\* DIRECTLY_LOCKED and INDIRECTLY_LOCKED, inactive for
\* INACTIVITY_LIMIT_EXCEEDED, active for ACTIVATED and unknown for every other
\* or missing state, and detailed_status is the raw state name.
C9_StateMapping ==
    \A p \in Procs :
        call[p].tool \in LoopTools \cup {"get_user_details"} =>
           \A k \in DOMAIN call[p].results :
              ~dir[EntryOfItem(call[p].results[k])].statusErr =>
                 /\ StatusOfItem(call[p].results[k]).simple_status =
                       MappedStatus(RawStateName(EntryOfItem(call[p].results[k])))
                 /\ StatusOfItem(call[p].results[k]).detailed_status =
                       <<RawStateName(EntryOfItem(call[p].results[k]))>>

\* list_locked_users returned an indirectly locked account.
C9_Witness ==
    /\ Succeeded(call["p1"])
    /\ call["p1"].tool = "list_locked_users"
    /\ Len(call["p1"].resp.data.items) = 1
    /\ ~dir[1].statusErr
    /\ StatusOfItem(call["p1"].resp.data.items[1]).detailed_status = <<"INDIRECTLY_LOCKED">>
    /\ StatusOfItem(call["p1"].resp.data.items[1]).simple_status = "locked"

\* C10: search_users_by_attribute builds (attribute=value) when the value
\* contains '*' and (attribute=*value*) otherwise; a value with a wildcard is
\* never wrapped again.
C10_AttributeFilterAsymmetry ==
    \A p \in Procs :
        (call[p].tool = "search_users_by_attribute" /\ Has(call[p].log, "search")) =>
           /\ Has(call[p].args.value, "*") =>
                 /\ call[p].search_filter =
                       <<"(", call[p].args.attribute, "=">> \o call[p].args.value \o <<")">>
                 /\ Len(call[p].search_filter) = Len(call[p].args.value) + 4
           /\ ~Has(call[p].args.value, "*") =>
                 call[p].search_filter =
                    <<"(", call[p].args.attribute, "=", "*">> \o call[p].args.value
                       \o <<"*", ")">>
           /\ Succeeded(call[p]) =>
                 call[p].resp.data.filter_used = call[p].search_filter

\* A search by attribute whose value ends in a wildcard, used verbatim.
C10_Witness ==
    /\ Succeeded(call["p1"])
    /\ call["p1"].tool = "search_users_by_attribute"
    /\ call["p1"].args.value = <<"a", "*">>
    /\ call["p1"].resp.data.filter_used = <<"(", call["p1"].args.attribute, "=", "a", "*", ")">>

\* The length of one predicate of the name filter, and its k-th predicate.
ClauseLen(name) == Len(name) + (IF Has(name, "*") THEN 4 ELSE 6)
ClauseAt(f, name, k) ==
    SubSeq(f, 3 + k * ClauseLen(name), 2 + (k + 1) * ClauseLen(name))

KeysNamed(d, k) == { j \in DOMAIN d.items : d.items[j][1] = k }

\* C12: every item of the user listing and search tools and the user record of
\* get_user_details carries attrs.computed_status equal to the classifier's
\* output for that entry's DN, in place of any computed_status attribute the
\* directory sent; nothing is returned without it.
C12_ComputedStatusAttached ==
    \A p \in Procs :
        call[p].tool \in LoopTools \cup {"get_user_details"} =>
           /\ \A k \in DOMAIN call[p].results :
                 /\ call[p].results[k].attrs.tag = "dict"
                 /\ Cardinality(KeysNamed(call[p].results[k].attrs, "computed_status")) = 1
                 /\ StatusOfItem(call[p].results[k]) =
                       _get_user_status(dir[EntryOfItem(call[p].results[k])])
           /\ (Succeeded(call[p]) /\ call[p].tool \in LoopTools) =>
                 call[p].resp.data.items = call[p].results
           /\ (Succeeded(call[p]) /\ call[p].tool = "get_user_details") =>
                 call[p].resp.data.user = call[p].results[1]

\* A listing returned an entry that came with a computed_status attribute of
\* its own, and the entry after it.
C12_Witness ==
    /\ Succeeded(call["p1"])
    /\ call["p1"].tool = "list_all_users"
    /\ Len(call["p1"].resp.data.items) = 2
    /\ DictGet(dir[1].attrs, "computed_status") = Str(<<"stale">>)
    /\ StatusOfItem(call["p1"].resp.data.items[1]).simple_status = "active"
    /\ StatusOfItem(call["p1"].resp.data.items[2]).simple_status = "locked"

CountedTools == {"list_all_users", "search_users_by_name", "search_users_by_attribute"}

\* The request parameters a success response echoes, as the response names them.
EchoedParams(c) ==
    CASE c.tool = "search_users_by_name" -> {"search_term", "filter_used"}
      [] c.tool = "search_users_by_attribute" -> {"attribute", "value", "filter_used"}
      [] OTHER -> {}

ErrorEnvelope(c) ==
    /\ c.resp.isError
    /\ DOMAIN c.resp = {"kind", "isError", "text"}

\* C13 as stated: every success response of every listing and search tool has
\* a type tag, the request parameters echoed unchanged, total_returned,
\* limit_applied and items; every error response is a single text message
\* flagged isError and carries no items.
C13_UniformEnvelope ==
    \A p \in Procs :
        (Finished(call[p]) /\ call[p].tool \in LoopTools) =>
           /\ Succeeded(call[p]) =>
                 DOMAIN call[p].resp.data =
                    {"type", "total_returned", "limit_applied", "items"}
                       \cup EchoedParams(call[p])
           /\ Failed(call[p]) => ErrorEnvelope(call[p])

\* C13, amended: every success response of every listing and search tool has
\* a type tag, the request parameters echoed unchanged, limit_applied and
\* items; list_all_users, search_users_by_name and search_users_by_attribute
\* add total_returned = len(items), while list_active_users and
\* list_locked_users have no total_returned and carry total_processed and
\* active_users_found / locked_users_found = len(items) instead; every error
\* response is a single text message flagged isError and carries no items.
C13_Envelope ==
    \A p \in Procs :
        (Finished(call[p]) /\ call[p].tool \in LoopTools) =>
           LET c == call[p]
               found == IF c.tool = "list_active_users"
                        THEN "active_users_found" ELSE "locked_users_found"
           IN  /\ Succeeded(c) =>
                     /\ ~c.resp.isError
                     /\ c.resp.data.limit_applied = c.limit
                     /\ c.resp.data.type \in
                           {"user_list", "user_search", "attribute_search",
                            "active_users", "locked_users"}
                     /\ c.tool = "search_users_by_name" =>
                           c.resp.data.search_term = c.args.name
                     /\ c.tool = "search_users_by_attribute" =>
                           /\ c.resp.data.attribute = c.args.attribute
                           /\ c.resp.data.value = c.args.value
                     /\ c.tool \in CountedTools =>
                           /\ DOMAIN c.resp.data =
                                 {"type", "total_returned", "limit_applied", "items"}
                                    \cup EchoedParams(c)
                           /\ c.resp.data.total_returned = Len(c.resp.data.items)
                     /\ c.tool \in StatusTools =>
                           /\ DOMAIN c.resp.data =
                                 {"type", "total_processed", found,
                                  "limit_applied", "items"}
                           /\ c.resp.data[found] = Len(c.resp.data.items)
               /\ Failed(c) => ErrorEnvelope(c)
               /\ Succeeded(c) \/ Failed(c)

\* list_locked_users answered with one locked account out of two entries read.
C13_Witness ==
    /\ Succeeded(call["p1"])
    /\ call["p1"].tool = "list_locked_users"
    /\ call["p1"].resp.data.total_processed = 2
    /\ call["p1"].resp.data.locked_users_found = 1
    /\ call["p1"].resp.data.limit_applied = 1

\* The records one step of an invocation can lead to, whatever else runs.
Outcomes(c) ==
    CASE c.pc = "connect" ->
            { Connected(ReadConfig(c), o) : o \in {"open", "raise"} \cup
                                      (IF c.tool = "run_list_healthchecks"
                                       THEN {"no_instance"} ELSE {}) }
      [] c.pc = "search" ->
            { [c EXCEPT !.pc = "loop", !.search_filter = SearchFilter(c),
                        !.user_entries = found, !.log = Append(c.log, "search")] :
                 found \in Enumerations(c) } \cup {SearchFailed(c)}
      [] c.pc = "loop" ->
            IF c.idx > Len(c.user_entries) \/ c.count >= c.limit
            THEN { [c EXCEPT !.pc = "close"] }
            ELSE { LoopBody(c, c.user_entries[c.idx]) }
      [] c.pc = "lookup" -> { LookedUp(c) }
      [] c.pc = "checks" ->
            { [c EXCEPT !.pc = "close", !.results = HealthChecks,
                        !.log = Append(c.log, "lint")],
              Caught([c EXCEPT !.log = Append(c.log, "lint")], "E_checks") }
      [] c.pc = "close" -> { Closed(c, ok) : ok \in BOOLEAN }
      [] c.pc = "respond" -> { Responded(c, ok) : ok \in BOOLEAN }
      [] c.pc = "handler" -> { Handled(c, ok) : ok \in BOOLEAN }
      [] OTHER -> {}

\* Every record an invocation passes through when it runs alone from c.
RECURSIVE SoloRuns(_)
SoloRuns(c) == {c} \cup UNION { SoloRuns(n) : n \in Outcomes(c) }

\* The invocation of c as it was called.
Started(c) ==
    [Idle EXCEPT !.pc = "connect", !.tool = c.tool, !.args = c.args,
                 !.limit = c.limit, !.config = c.config]

\* C14: invocations share no writable state: under any interleaving of two
\* invocations on an unchanged directory, each invocation is at every moment
\* in a state it passes through when run alone, so it returns a response it
\* returns when run alone, and its connection handle is opened and closed by
\* its own steps only.
C14_NoSharedState ==
    \A p \in Procs :
        call[p].pc # "idle" =>
           /\ call[p] \in SoloRuns(Started(call[p]))
           /\ call[p].conn # "none" => Has(call[p].log, "open")
           /\ call[p].conn = "closed" => Has(call[p].log, "unbind")

\* Two invocations of different tools hold open connections at once, one in
\* its loop with an item collected and one about to close.
C14_Witness ==
    /\ call["p2"].tool = "list_all_users"
    /\ call["p2"].pc = "loop"
    /\ call["p2"].conn = "open"
    /\ Len(call["p2"].results) = 1
    /\ call["p1"].tool = "get_user_details"
    /\ call["p1"].pc = "close"
    /\ call["p1"].conn = "open"

\* The text of an attribute value, decoded when it came as bytes, in lower case.
FoldedText(v) ==
    CASE v \in {"true", "TRUE", "True", "b'true'", "b'TRUE'"} -> "true"
      [] OTHER -> v

LockedByAttribute(e) == Len(e.lock) > 0 /\ FoldedText(e.lock[1]) = "true"

\* C15: the fallback path of _get_user_status runs only if the primary status
\* query raised; it classifies the account locked / DIRECTLY_LOCKED exactly
\* when nsAccountLock is present and case-insensitively equal to 'true', and
\* active / ACTIVATED in every other case, with empty status_params and no
\* calc_time.
C15_FallbackClassification ==
    \A p \in Procs :
        /\ Has(call[p].log, "fallback") =>
              \E i \in 1 .. Len(dir) : dir[i].statusErr
        /\ \A k \in DOMAIN call[p].results :
              LET e == dir[EntryOfItem(call[p].results[k])]
                  s == StatusOfItem(call[p].results[k])
              IN  (call[p].tool # "run_list_healthchecks" /\ e.statusErr /\ ~e.fbErr) =>
                     /\ s.status_params = EmptyDict
                     /\ s.calc_time = None
                     /\ IF LockedByAttribute(e)
                        THEN s.simple_status = "locked"
                             /\ s.detailed_status = <<"DIRECTLY_LOCKED">>
                        ELSE s.simple_status = "active"
                             /\ s.detailed_status = <<"ACTIVATED">>

\* C16: _get_user_status never raises: an entry whose status query and
\* fallback attribute read both fail is still returned, with simple_status
\* 'unknown' and a detailed_status that embeds the error text of the primary
\* failure, not that of the fallback failure.
C16_DoubleFailureUnknown ==
    \A p \in Procs :
        call[p].tool \in LoopTools \cup {"get_user_details"} =>
           /\ call[p].err \notin {"E_status", "E_fallback"}
           /\ \A k \in DOMAIN call[p].results :
                 LET e == dir[EntryOfItem(call[p].results[k])]
                     s == StatusOfItem(call[p].results[k])
                 IN  (e.statusErr /\ e.fbErr) =>
                        /\ s.simple_status = "unknown"
                        /\ s.detailed_status = <<"error: ", "E_status">>
                        /\ s.status_params = EmptyDict
                        /\ s.calc_time = None
           /\ (Succeeded(call[p]) /\ call[p].tool \notin StatusTools
                 /\ (call[p].tool \in LoopTools => call[p].limit >= Len(dir))) =>
                 \A k \in DOMAIN call[p].user_entries :
                    WellFormed(call[p].user_entries[k]) =>
                       Dn(call[p].user_entries[k]) \in DnsOf(call[p].resp.data.items)
           /\ (call[p].tool = "get_user_details" /\ Finished(call[p])
                 /\ Present(call[p].args.username)
                 /\ WellFormed(IndexOf(call[p].args.username))) =>
                 call[p].err \in {"", "E_unbind", "E_dumps", "E_connect"}

\* list_all_users returned an account whose status query and fallback both
\* failed, classified unknown with the primary error.
C16_Witness ==
    /\ Succeeded(call["p1"])
    /\ call["p1"].tool = "list_all_users"
    /\ dir[1].statusErr /\ dir[1].fbErr
    /\ Len(call["p1"].resp.data.items) = 2
    /\ StatusOfItem(call["p1"].resp.data.items[1]).detailed_status = <<"error: ", "E_status">>

CountOf(s, x) == Cardinality({ k \in DOMAIN s : s[k] = x })

\* The number of entries the loop has to look at to collect limit matches:
\* the shortest prefix of the enumeration holding limit qualifying entries,
\* the whole enumeration when there are fewer.
ToInspect(c) ==
    LET enough == { n \in 0 .. Len(c.user_entries) :
                       Len(Qualifying(c.tool, SubSeq(c.user_entries, 1, n))) >= c.limit }
    IN  IF enough = {} THEN Len(c.user_entries)
        ELSE CHOOSE n \in enough : \A m \in enough : n <= m

\* C17: in list_active_users and list_locked_users no entry is added or
\* inspected once limit entries have been collected, and total_processed is
\* the number of raw entries inspected, entries rejected by the status filter
\* and entries whose processing failed included; so total_processed >=
\* active_users_found (locked_users_found) = len(items).
C17_TotalProcessed ==
    \A p \in Procs :
        call[p].tool \in StatusTools =>
           /\ call[p].processed = CountOf(call[p].log, "read")
           /\ call[p].processed <= ToInspect(call[p])
           /\ Len(call[p].results) >= call[p].limit => call[p].processed = ToInspect(call[p])
           /\ Succeeded(call[p]) =>
                LET d == call[p].resp.data
                    found == IF call[p].tool = "list_active_users"
                             THEN d.active_users_found ELSE d.locked_users_found
                IN  /\ d.total_processed = ToInspect(call[p])
                    /\ d.total_processed = CountOf(call[p].log, "read")
                    /\ d.total_processed >= found
                    /\ found = Len(d.items)

\* list_active_users with limit 1 read an entry it could not process, then an
\* active account: two entries processed, one found.
C17_Witness ==
    /\ Succeeded(call["p1"])
    /\ call["p1"].tool = "list_active_users"
    /\ call["p1"].limit = 1
    /\ Len(dir) = 2
    /\ ~WellFormed(1)
    /\ call["p1"].resp.data.total_processed = 2
    /\ call["p1"].resp.data.active_users_found = 1

Min(a, b) == IF a < b THEN a ELSE b

\* The directory entries that are processed without error and classified as
\* the tool asks (active for list_active_users, locked for list_locked_users).
Matching(tool) == { i \in 1 .. Len(dir) : Qualifies(tool, i) }

\* C18: the status filter is applied after an unfiltered listing and the limit
\* counts only matching entries: for limit >= 0 list_active_users
\* (list_locked_users) returns exactly min(limit, n) items, n the number of
\* successfully processed entries classified active (locked); entries that do
\* not match or fail never use up the limit.
C18_LimitCountsMatches ==
    \A p \in Procs :
        call[p].tool \in StatusTools =>
           /\ call[p].search_filter = <<>>
           /\ call[p].count = Len(call[p].results)
           /\ \A k \in DOMAIN call[p].results :
                 EntryOfItem(call[p].results[k]) \in Matching(call[p].tool)
           /\ (Succeeded(call[p]) /\ call[p].limit >= 0) =>
                 /\ call[p].user_entries = Ascending(1 .. Len(dir))
                 /\ Len(call[p].resp.data.items) =
                       Min(call[p].limit, Cardinality(Matching(call[p].tool)))

\* list_locked_users with limit 1 passed over an active account and returned
\* the locked account after it.
C18_Witness ==
    /\ Succeeded(call["p1"])
    /\ call["p1"].tool = "list_locked_users"
    /\ call["p1"].limit = 1
    /\ Len(dir) = 2
    /\ WellFormed(1)
    /\ _get_user_status(dir[1]).simple_status = "active"
    /\ DnSeq(call["p1"].resp.data.items) = <<Dn(2)>>

DirectoryOps == {"search", "get", "read", "status", "fallback", "lint"}

\* Every directory operation of the invocation lies between its open and its
\* close, the search or lookup is made once, every entry is read once, and a
\* fallback read follows a failed status query, once.
OpsWithinConnection(c) ==
    /\ CountOf(c.log, "open") <= 1
    /\ CountOf(c.log, "search") + CountOf(c.log, "get") + CountOf(c.log, "lint") <= 1
    /\ \A k \in DOMAIN c.log :
          /\ c.log[k] \in DirectoryOps =>
                /\ c.log[1] = "open"
                /\ c.err # "E_connect"
                /\ \A j \in 1 .. k : c.log[j] # "unbind"
          /\ c.log[k] = "status" => k > 1 /\ c.log[k - 1] = "read"
          /\ c.log[k] = "fallback" => k > 1 /\ c.log[k - 1] = "status"
    /\ c.tool \in LoopTools =>
          /\ CountOf(c.log, "read") = c.idx - 1
          /\ c.idx - 1 <= Len(c.user_entries)
    /\ c.tool = "get_user_details" => CountOf(c.log, "read") <= 1
    /\ c.conn # "none" => c.log # <<>> /\ c.log[1] = "open"

\* C19 as stated: each tool invocation opens exactly one connection, every
\* directory operation of the invocation happens after that open and before
\* its close, nothing is retried or reopened, and the status fallback is
\* attempted at most once per entry.
C19_ExactlyOneConnection ==
    \A p \in Procs :
        /\ call[p].pc # "idle" => OpsWithinConnection(call[p])
        /\ Finished(call[p]) => CountOf(call[p].log, "open") = 1

\* C19, amended: each tool invocation opens one connection, except that
\* run_list_healthchecks opens none when there is no local instance; every
\* directory operation of the invocation happens after that open and before
\* its close, nothing is retried or reopened, and the status fallback is
\* attempted at most once per entry.
C19_OneConnection ==
    \A p \in Procs :
        /\ call[p].pc # "idle" => OpsWithinConnection(call[p])
        /\ Finished(call[p]) =>
              \/ CountOf(call[p].log, "open") = 1
              \/ /\ call[p].tool = "run_list_healthchecks"
                 /\ call[p].log = <<>>
                 /\ call[p].conn = "none"
                 /\ call[p].resp = Failure(<<"There is no local instance">>)

\* list_all_users went through two entries on one connection, the first with
\* a failed status query and its fallback read.
C19_Witness ==
    /\ Succeeded(call["p1"])
    /\ call["p1"].tool = "list_all_users"
    /\ call["p1"].log =
          <<"open", "search", "read", "status", "fallback", "read", "status", "unbind">>

\* No datetime value at any depth of the value.
RECURSIVE NoDatetime(_)
NoDatetime(v) ==
    CASE v.tag = "datetime" -> FALSE
      [] v.tag = "dict" -> \A i \in DOMAIN v.items : NoDatetime(v.items[i][2])
      [] v.tag = "list" -> \A i \in DOMAIN v.items : NoDatetime(v.items[i])
      [] OTHER -> TRUE

\* Some datetime value below the outermost level of the value.
HasNestedDatetime(v) ==
    v.tag = "dict" /\ \E i \in DOMAIN v.items : ~NoDatetime(v.items[i][2])
                                                /\ v.items[i][2].tag # "datetime"

\* after is before with every datetime replaced by its ISO-8601 text and
\* nothing else changed: same keys, same lengths, same order, same other values.
RECURSIVE OnlyDatetimesChanged(_, _)
OnlyDatetimesChanged(before, after) ==
    CASE before.tag = "datetime" -> after = Str(<<"iso:", before.t>>)
      [] before.tag = "dict" ->
            /\ after.tag = "dict"
            /\ Len(after.items) = Len(before.items)
            /\ \A i \in DOMAIN before.items :
                  /\ after.items[i][1] = before.items[i][1]
                  /\ OnlyDatetimesChanged(before.items[i][2], after.items[i][2])
      [] before.tag = "list" ->
            /\ after.tag = "list"
            /\ Len(after.items) = Len(before.items)
            /\ \A i \in DOMAIN before.items :
                  OnlyDatetimesChanged(before.items[i], after.items[i])
      [] OTHER -> after = before

\* C20: _convert_datetimes_to_strings replaces every datetime at every depth
\* of dicts and lists by its ISO-8601 text and changes no other value, dict
\* key, list length or element order; in the attrs and the status params of
\* every returned entry no datetime value remains.
C20_DatetimesConverted ==
    \A p \in Procs :
        call[p].tool \in LoopTools \cup {"get_user_details"} =>
           \A k \in DOMAIN call[p].results :
              LET item == call[p].results[k]
                  e == dir[EntryOfItem(item)]
              IN  /\ \A i \in DOMAIN e.attrs.items :
                        /\ item.attrs.items[i][1] = e.attrs.items[i][1]
                        /\ e.attrs.items[i][1] # "computed_status" =>
                              /\ OnlyDatetimesChanged(e.attrs.items[i][2],
                                                      item.attrs.items[i][2])
                              /\ NoDatetime(item.attrs.items[i][2])
                  /\ ~e.statusErr =>
                        /\ OnlyDatetimesChanged(e.params, StatusOfItem(item).status_params)
                        /\ NoDatetime(StatusOfItem(item).status_params)

\* An account whose status params hold datetimes inside a list and inside a
\* dict in that list was returned.
C20_Witness ==
    /\ Succeeded(call["p1"])
    /\ call["p1"].tool = "get_user_details"
    /\ HasNestedDatetime(dir[1].params)
    /\ StatusOfItem(call["p1"].resp.data.user).status_params =
          Dict(<< <<"Creation Date", Str(<<"iso:", "t0">>)>>,
                  <<"History", List(<<Str(<<"iso:", "t1">>), Num(1),
                                      Dict(<< <<"Last Login", Str(<<"iso:", "t3">>)>> >>)>>)>> >>)

\* A cap on the entries of one invocation, smaller than the largest directory:
\* whatever cap the server had, some directory would be larger.
SafetyBound == MaxEntries - 1

\* C21: the number of directory entries a tool invocation enumerates and
\* inspects is capped by an internal safety bound that depends neither on the
\* size of the directory nor on the caller's limit.
C21_InspectionCapped ==
    \A p \in Procs :
        call[p].tool \in LoopTools =>
           /\ Len(call[p].user_entries) <= SafetyBound
           /\ CountOf(call[p].log, "read") <= SafetyBound

\* C22: every value _get_user_status returns, on the primary, the fallback
\* and the double-failure path, has exactly the fields simple_status,
\* detailed_status, status_params and calc_time, with simple_status one of
\* active, inactive, locked, unknown and calc_time None or text, never a raw
\* timestamp.
C22_StatusShape ==
    \A p \in Procs :
        call[p].tool \in LoopTools \cup {"get_user_details"} =>
           \A k \in DOMAIN call[p].results :
              LET s == StatusOfItem(call[p].results[k])
              IN  /\ DOMAIN s = {"simple_status", "detailed_status",
                                 "status_params", "calc_time"}
                  /\ s.simple_status \in {"active", "inactive", "locked", "unknown"}
                  /\ s.status_params.tag = "dict"
                  /\ s.calc_time.tag \in {"none", "str"}

\* The enumerated entries that are processed without error and pass the
\* tool's post-filter, in enumeration order.
Passing(c) == Qualifying(c.tool, c.user_entries)

IsPrefix(s, t) == Len(s) <= Len(t) /\ s = SubSeq(t, 1, Len(s))

Injective(s) == \A j, k \in DOMAIN s : s[j] = s[k] => j = k

\* C23: in every listing and search tool items is exactly the first
\* min(limit, k) elements, in enumeration order and without duplicates or
\* reordering, of the k enumerated entries that were processed successfully
\* and passed the tool's post-filter; an entry that fails processing uses no
\* slot of the limit.
C23_ItemsArePrefix ==
    \A p \in Procs :
        call[p].tool \in LoopTools =>
           LET c == call[p]
               expected == [k \in DOMAIN Passing(c) |-> Dn(Passing(c)[k])]
           IN  /\ IsPrefix(DnSeq(c.results), expected)
               /\ Injective(DnSeq(c.results))
               /\ Succeeded(c) =>
                     /\ c.resp.data.items = c.results
                     /\ Len(c.resp.data.items) =
                           IF Min(c.limit, Len(Passing(c))) < 0 THEN 0
                           ELSE Min(c.limit, Len(Passing(c)))

\* A search with limit 2 enumerated two entries and returned both, in the
\* order of the enumeration.
C23_Witness ==
    /\ Succeeded(call["p1"])
    /\ call["p1"].tool = "search_users_by_attribute"
    /\ call["p1"].limit = 2
    /\ call["p1"].user_entries = <<1, 2>>
    /\ DnSeq(call["p1"].resp.data.items) = <<Dn(1), Dn(2)>>

\* C24: on every path of every tool invocation the connection is closed at
\* most once: unbind_s is never called a second time on the same handle, also
\* not in get_user_details when the close or the serialization of the response
\* raises after the first close.
C24_ClosedAtMostOnce ==
    \A p \in Procs : CountOf(call[p].log, "unbind") <= 1

\* C25: get_user_details returns an error message containing 'not found' only
\* when the lookup of the username failed; a failure of a later step for a
\* user that exists (attribute read, status attachment, close, serialization)
\* is not reported as 'not found'.
C25_NotFoundOnlyForAbsent ==
    \A p \in Procs :
        (call[p].tool = "get_user_details" /\ Failed(call[p])
            /\ Has(call[p].resp.text, "not found")) =>
           ~Present(call[p].args.username)

\* C26: an account is reported with simple_status 'active', and so included
\* by list_active_users and excluded by list_locked_users, only if the
\* directory's account state is ACTIVATED; an account whose state is
\* INDIRECTLY_LOCKED or INACTIVITY_LIMIT_EXCEEDED is never reported active,
\* on the primary path or the fallback path.
C26_ActiveOnlyIfActivated ==
    \A p \in Procs :
        call[p].tool \in LoopTools \cup {"get_user_details"} =>
           \A k \in DOMAIN call[p].results :
              LET e == dir[EntryOfItem(call[p].results[k])]
              IN  /\ StatusOfItem(call[p].results[k]).simple_status = "active" =>
                        e.state = Enum("ACTIVATED")
                  /\ call[p].tool = "list_active_users" => e.state = Enum("ACTIVATED")

\* C27: within one tool invocation the server URL and bind credentials the
\* connection is opened with and the base DN of the search and the status
\* queries come from one single read of the environment: an environment
\* change made while the invocation runs cannot make it connect with one
\* configuration and search under another.
C27_OneConfigRead ==
    \A p \in Procs :
        (call[p].tool \in LoopTools /\ Has(call[p].log, "search")) =>
           call[p].conn_config = call[p].config

====
